---- MODULE Spec2Model ----
(***************************************************************************)
(* Model of scripts/validate_data_sync_list.py: validate_schema, which     *)
(* loads a JSON schema and validates an ordered list of JSON config files  *)
(* against it, printing one success line per file and leaving the process  *)
(* through sys.exit on the first failure.                                  *)
(*                                                                         *)
(* The function is modelled statement by statement; pc is the position of  *)
(* the single thread of control.  Strings built with "+" are modelled as   *)
(* sequences of their parts, so that "the message contains the path" can   *)
(* be stated.                                                              *)
(***************************************************************************)
EXTENDS Integers, Sequences, FiniteSets, TLC

\* Longest data_sync_list explored.
MaxN == 3

\* The paths that may be given with --json_files, and the --schema path.
Paths == {"a.json", "b.json", "c.json"}
schema_file == "schema.json"

\* What a config file may hold on disk.  "format_bad" is a JSON document
\* whose only defect is a string that violates a `format` keyword of the
\* schema; "violating" is a document that breaks a structural keyword
\* (type, required, ...).
ConfigContents == {"missing", "malformed", "conforming", "violating", "format_bad"}

\* What the schema file may hold on disk.  "not_a_schema" is well-formed JSON
\* that is not a valid JSON Schema (e.g. {"type": 5}).
SchemaContents == {"missing", "malformed", "schema", "not_a_schema"}

None == "None"
NoError == [cls |-> "None", text |-> <<>>]

VARIABLES
    data_sync_list,     \* argument: sequence of config file paths
    schema_content,     \* the file system: content of schema_file
    fs,                 \* the file system: content of each config path
    pc,                 \* position in validate_schema
    it,                 \* position of the for-loop iterator (index of the next item)
    config_file,        \* loop variable
    schema_json,        \* parsed schema
    config_file_json,   \* parsed config file
    handles,            \* set of files currently open
    error,              \* the exception being raised / handled
    stdout,             \* lines printed
    stderr,             \* messages written at interpreter exit
    exit_status,        \* -1 while the process runs, then its exit status
    opens,              \* history: paths passed to open(), in order
    loads,              \* history: paths passed through json.load(), in order
    validated           \* history: paths passed to jsonschema validate(), in order

vars == <<data_sync_list, schema_content, fs, pc, it, config_file, schema_json,
          config_file_json, handles, error, stdout, stderr, exit_status,
          opens, loads, validated>>

RECURSIVE SeqsUpTo(_, _)
SeqsUpTo(S, n) ==
    IF n = 0 THEN {<<>>}
    ELSE LET shorter == SeqsUpTo(S, n - 1)
         IN  shorter \cup {Append(s, x) : s \in {t \in shorter : Len(t) = n - 1}, x \in S}

----------------------------------------------------------------------------
(* Library behaviour used by the script *)

\* open(path): raises FileNotFoundError when the file is absent.
OpenRaises(content) == content = "missing"

\* json.load(handle): raises JSONDecodeError on text that is not JSON;
\* otherwise the parsed document (identified here by its content class).
LoadRaises(content) == content = "malformed"

\* Variant: the call made without a format checker.
FormatCheckerArg_none == None
\* The format_checker argument passed at line 38.
FormatCheckerArg == "FORMAT_CHECKER"

\* Variant: a validator that does not check the schema itself.
validate_nocheck(instance, schema, format_checker) ==
    IF instance = "violating" THEN "ValidationError"
    ELSE IF instance = "format_bad" /\ format_checker # None THEN "ValidationError"
    ELSE None
\* jsonschema.validators.validate(instance, schema, format_checker=...):
\* first check_schema(schema) (SchemaError), then the instance against the
\* schema (ValidationError); `format` is asserted only with a format checker.
\* The result is the class of the exception raised, None when it returns.
validate(instance, schema, format_checker) ==
    IF schema # "schema" THEN "SchemaError"
    ELSE IF instance = "violating" THEN "ValidationError"
    ELSE IF instance = "format_bad" /\ format_checker # None THEN "ValidationError"
    ELSE None

\* Variant: a bare `except:`, which catches SystemExit too.
ExceptException_bare(cls) == TRUE
\* `except Exception` (lines 41 and 48): catches every class derived from
\* Exception.  SystemExit derives from BaseException only.
ExceptException(cls) ==
    cls \in {"FileNotFoundError", "JSONDecodeError", "ValidationError", "SchemaError"}

\* Variant: open() without `with`, the file is never closed.
WithExit_leak(hs, f) == hs
\* Leaving a `with open(...)` block, normally or by exception, closes the file.
WithExit(hs, f) == hs \ {f}

\* str(error): the text of an exception; for SystemExit(msg) it is msg.
Str(e) == e.text

\* Variant: the success line names the schema file.
SuccessLine_schema(path) == <<"Schema validation success for ", schema_file>>
\* line 40: "Schema validation success for " + config_file
SuccessLine(path) == <<"Schema validation success for ", path>>
\* Variant: the failure message without the path.
FailureMessage_nopath(path, e) == <<"Schema validation failed for ", "!!! Error : ">> \o Str(e)
\* lines 43-46: "Schema validation failed for " + config_file + "!!! Error : " + str(error)
FailureMessage(path, e) ==
    <<"Schema validation failed for ", path, "!!! Error : ">> \o Str(e)
\* line 49: "Error in schema.json : " + str(error)
SchemaErrorMessage(e) == <<"Error in schema.json : ">> \o Str(e)

\* Variant: the inner handler swallows the exception and the loop goes on.
RaiseInner_ignore(cls) == "for"
\* An exception raised inside the inner try body (lines 33-40).
RaiseInner(cls) == IF ExceptException(cls) THEN "inner_except" ELSE "outer_dispatch"
\* An exception raised inside the outer try body but outside the inner one's
\* reach (lines 28-29, or escaping the inner handler).
RaiseOuter(cls) == IF ExceptException(cls) THEN "outer_except" ELSE "uncaught"

----------------------------------------------------------------------------
Init ==
    /\ data_sync_list \in SeqsUpTo(Paths, MaxN)
    /\ schema_content \in SchemaContents
    /\ fs \in [Paths -> ConfigContents]
    /\ pc = "open_schema"
    /\ it = 1
    /\ config_file = None
    /\ schema_json = None
    /\ config_file_json = None
    /\ handles = {}
    /\ error = NoError
    /\ stdout = <<>>
    /\ stderr = <<>>
    /\ exit_status = -1
    /\ opens = <<>>
    /\ loads = <<>>
    /\ validated = <<>>

\* line 28: with open(schema_file) as schema_handle
OpenSchema ==
    /\ pc = "open_schema"
    /\ opens' = Append(opens, schema_file)
    /\ IF OpenRaises(schema_content)
       THEN /\ error' = [cls |-> "FileNotFoundError", text |-> <<"No such file">>]
            /\ pc' = RaiseOuter("FileNotFoundError")
            /\ UNCHANGED handles
       ELSE /\ handles' = handles \cup {schema_file}
            /\ pc' = "load_schema"
            /\ UNCHANGED error
    /\ UNCHANGED <<data_sync_list, schema_content, fs, it, config_file, schema_json,
                   config_file_json, stdout, stderr, exit_status, loads, validated>>

\* line 29: schema_json = json.load(schema_handle), then the with block ends
LoadSchema ==
    /\ pc = "load_schema"
    /\ loads' = Append(loads, schema_file)
    /\ handles' = WithExit(handles, schema_file)
    /\ IF LoadRaises(schema_content)
       THEN /\ error' = [cls |-> "JSONDecodeError", text |-> <<"Expecting value">>]
            /\ pc' = RaiseOuter("JSONDecodeError")
            /\ UNCHANGED schema_json
       ELSE /\ schema_json' = schema_content
            /\ pc' = "for"
            /\ UNCHANGED error
    /\ UNCHANGED <<data_sync_list, schema_content, fs, it, config_file,
                   config_file_json, stdout, stderr, exit_status, opens, validated>>

\* Variant: the list is walked from its end.
ForNext_reversed ==
    /\ pc = "for"
    /\ IF it <= Len(data_sync_list)
       THEN /\ config_file' = data_sync_list[Len(data_sync_list) + 1 - it]
            /\ it' = it + 1
            /\ pc' = "open_config"
            /\ UNCHANGED exit_status
       ELSE /\ pc' = "exited"
            /\ exit_status' = 0
            /\ UNCHANGED <<config_file, it>>
    /\ UNCHANGED <<data_sync_list, schema_content, fs, schema_json, config_file_json,
                   handles, error, stdout, stderr, opens, loads, validated>>

\* line 31: for config_file in data_sync_list; when the list is exhausted the
\* function returns and the script ends with status 0
ForNext ==
    /\ pc = "for"
    /\ IF it <= Len(data_sync_list)
       THEN /\ config_file' = data_sync_list[it]
            /\ it' = it + 1
            /\ pc' = "open_config"
            /\ UNCHANGED exit_status
       ELSE /\ pc' = "exited"
            /\ exit_status' = 0
            /\ UNCHANGED <<config_file, it>>
    /\ UNCHANGED <<data_sync_list, schema_content, fs, schema_json, config_file_json,
                   handles, error, stdout, stderr, opens, loads, validated>>

\* line 33: with open(config_file) as config_file_handle
OpenConfig ==
    /\ pc = "open_config"
    /\ opens' = Append(opens, config_file)
    /\ IF OpenRaises(fs[config_file])
       THEN /\ error' = [cls |-> "FileNotFoundError", text |-> <<"No such file">>]
            /\ pc' = RaiseInner("FileNotFoundError")
            /\ UNCHANGED handles
       ELSE /\ handles' = handles \cup {config_file}
            /\ pc' = "load_config"
            /\ UNCHANGED error
    /\ UNCHANGED <<data_sync_list, schema_content, fs, it, config_file, schema_json,
                   config_file_json, stdout, stderr, exit_status, loads, validated>>

\* line 34: config_file_json = json.load(config_file_handle)
LoadConfig ==
    /\ pc = "load_config"
    /\ loads' = Append(loads, config_file)
    /\ IF LoadRaises(fs[config_file])
       THEN /\ error' = [cls |-> "JSONDecodeError", text |-> <<"Expecting value">>]
            /\ pc' = RaiseInner("JSONDecodeError")
            /\ handles' = WithExit(handles, config_file)
            /\ UNCHANGED config_file_json
       ELSE /\ config_file_json' = fs[config_file]
            /\ pc' = "validate"
            /\ UNCHANGED <<error, handles>>
    /\ UNCHANGED <<data_sync_list, schema_content, fs, it, config_file, schema_json,
                   stdout, stderr, exit_status, opens, validated>>

\* lines 35-39: jsonschema.validators.validate(config_file_json, schema_json,
\*                  format_checker=jsonschema.Draft202012Validator.FORMAT_CHECKER)
Validate ==
    /\ pc = "validate"
    /\ validated' = Append(validated, config_file)
    /\ LET raised == validate(config_file_json, schema_json, FormatCheckerArg)
       IN  IF raised # None
           THEN /\ error' = [cls |-> raised, text |-> <<raised>>]
                /\ pc' = RaiseInner(raised)
                /\ handles' = WithExit(handles, config_file)
           ELSE /\ pc' = "print"
                /\ UNCHANGED <<error, handles>>
    /\ UNCHANGED <<data_sync_list, schema_content, fs, it, config_file, schema_json,
                   config_file_json, stdout, stderr, exit_status, opens, loads>>

\* line 40: print("Schema validation success for " + config_file), then the
\* with block ends and the loop continues
PrintSuccess ==
    /\ pc = "print"
    /\ stdout' = Append(stdout, SuccessLine(config_file))
    /\ handles' = WithExit(handles, config_file)
    /\ pc' = "for"
    /\ UNCHANGED <<data_sync_list, schema_content, fs, it, config_file, schema_json,
                   config_file_json, error, stderr, exit_status, opens, loads, validated>>

\* Variant: the inner handler reports the failure and the loop goes on.
InnerExcept_continue ==
    /\ pc = "inner_except"
    /\ stderr' = Append(stderr, FailureMessage(config_file, error))
    /\ pc' = "for"
    /\ UNCHANGED <<data_sync_list, schema_content, fs, it, config_file, schema_json,
                   config_file_json, handles, error, stdout, exit_status,
                   opens, loads, validated>>

\* lines 41-47: except Exception as error: sys.exit("Schema validation failed
\* for " + config_file + "!!! Error : " + str(error)); sys.exit raises SystemExit
InnerExcept ==
    /\ pc = "inner_except"
    /\ error' = [cls |-> "SystemExit", text |-> FailureMessage(config_file, error)]
    /\ pc' = "outer_dispatch"
    /\ UNCHANGED <<data_sync_list, schema_content, fs, it, config_file, schema_json,
                   config_file_json, handles, stdout, stderr, exit_status,
                   opens, loads, validated>>

\* line 48: the exception leaving the inner try statement meets the outer
\* `except Exception`
OuterDispatch ==
    /\ pc = "outer_dispatch"
    /\ pc' = RaiseOuter(error.cls)
    /\ UNCHANGED <<data_sync_list, schema_content, fs, it, config_file, schema_json,
                   config_file_json, handles, error, stdout, stderr, exit_status,
                   opens, loads, validated>>

\* Variant: the outer handler reports the failure and the loop is entered.
OuterExcept_continue ==
    /\ pc = "outer_except"
    /\ stderr' = Append(stderr, SchemaErrorMessage(error))
    /\ pc' = "for"
    /\ UNCHANGED <<data_sync_list, schema_content, fs, it, config_file, schema_json,
                   config_file_json, handles, error, stdout, exit_status,
                   opens, loads, validated>>

\* line 49: sys.exit("Error in schema.json : " + str(error))
OuterExcept ==
    /\ pc = "outer_except"
    /\ error' = [cls |-> "SystemExit", text |-> SchemaErrorMessage(error)]
    /\ pc' = "uncaught"
    /\ UNCHANGED <<data_sync_list, schema_content, fs, it, config_file, schema_json,
                   config_file_json, handles, stdout, stderr, exit_status,
                   opens, loads, validated>>

\* SystemExit(msg) reaches the interpreter: msg is written to stderr and the
\* process ends with status 1
InterpreterExit ==
    /\ pc = "uncaught"
    /\ stderr' = Append(stderr, Str(error))
    /\ exit_status' = 1
    /\ pc' = "exited"
    /\ UNCHANGED <<data_sync_list, schema_content, fs, it, config_file, schema_json,
                   config_file_json, handles, error, stdout, opens, loads, validated>>

Next ==
    \/ OpenSchema
    \/ LoadSchema
    \/ ForNext
    \/ OpenConfig
    \/ LoadConfig
    \/ Validate
    \/ PrintSuccess
    \/ InnerExcept
    \/ OuterDispatch
    \/ OuterExcept
    \/ InterpreterExit

Spec == Init /\ [][Next]_vars

\* The script is one sequential thread: a step that can be taken is taken.
FairSpec == Spec /\ WF_vars(Next)

----------------------------------------------------------------------------
(* Vocabulary of the properties *)

Exited == pc = "exited"
N == Len(data_sync_list)

\* The schema file opens and parses as JSON.
SchemaLoads == schema_content \in {"schema", "not_a_schema"}

\* Candidate at position i cannot pass: absent, not JSON, or not accepted
\* by the schema.
Fails(i) == fs[data_sync_list[i]] # "conforming" \/ schema_content # "schema"

\* Position of the first failing candidate, 0 when there is none.
FirstBad ==
    IF \E i \in 1..N : Fails(i)
    THEN CHOOSE i \in 1..N : Fails(i) /\ \A j \in 1..(i - 1) : ~Fails(j)
    ELSE 0

\* The candidate part of the open() history (the schema is opened first).
ConfigOpens == SubSeq(opens, 2, Len(opens))
ConfigLoads == SubSeq(loads, 2, Len(loads))

IsPrefix(s, t) == Len(s) <= Len(t) /\ s = SubSeq(t, 1, Len(s))

\* The success lines of the first n candidates, in list order.
SuccessLines(n) == [i \in 1..n |-> <<"Schema validation success for ", data_sync_list[i]>>]

Occurrences(s, x) == Cardinality({i \in 1..Len(s) : s[i] = x})

IsSchemaErrorMsg(m) == Len(m) >= 1 /\ m[1] = "Error in schema.json : "
IsCandidateErrorMsg(m, path) ==
    /\ Len(m) >= 3
    /\ SubSeq(m, 1, 3) = <<"Schema validation failed for ", path, "!!! Error : ">>
    /\ \A i \in 1..Len(m) : m[i] # "Error in schema.json : "

----------------------------------------------------------------------------
\* C1: when the schema loads and the k-th candidate is the first that fails,
\* the success lines are never more than those of candidates 1..k-1 in list
\* order, no candidate after position k is ever opened, and the run ends
\* aborted (status 1) with exactly the k-1 success lines printed and
\* exactly candidates 1..k opened.
C1_FailFast ==
    (SchemaLoads /\ FirstBad > 0) =>
        /\ IsPrefix(stdout, SuccessLines(FirstBad - 1))
        /\ IsPrefix(ConfigOpens, SubSeq(data_sync_list, 1, FirstBad))
        /\ Exited => /\ exit_status = 1
                     /\ stdout = SuccessLines(FirstBad - 1)
                     /\ ConfigOpens = SubSeq(data_sync_list, 1, FirstBad)

C1_Witness ==
    /\ Exited /\ schema_content = "schema"
    /\ N = 3 /\ FirstBad = 2
    /\ Len(stdout) = 1 /\ exit_status = 1
    /\ data_sync_list[3] # data_sync_list[2]

\* C2: when the schema file is missing or is not JSON, no candidate is ever
\* opened, parsed or validated, nothing is printed, and the run ends with
\* status 1 and the single schema-error message, whatever the candidates.
C2_SchemaErrorFirst ==
    (schema_content \in {"missing", "malformed"}) =>
        /\ ConfigOpens = <<>>
        /\ ConfigLoads = <<>>
        /\ validated = <<>>
        /\ stdout = <<>>
        /\ Exited => /\ exit_status = 1
                     /\ Len(stderr) = 1
                     /\ IsSchemaErrorMsg(stderr[1])

C2_Witness ==
    /\ Exited /\ schema_content = "malformed"
    /\ N = 3 /\ \A i \in 1..N : fs[data_sync_list[i]] = "conforming"
    /\ exit_status = 1

\* C3: with a valid schema and a non-empty list of conforming candidates no
\* error message is ever emitted and the run ends with status 0 and exactly
\* one success line per candidate, naming its path, in list order.
C3_AllPass ==
    (schema_content = "schema" /\ N > 0
        /\ \A i \in 1..N : fs[data_sync_list[i]] = "conforming") =>
        /\ stderr = <<>>
        /\ Exited => /\ exit_status = 0
                     /\ Len(stdout) = N
                     /\ \A i \in 1..N : stdout[i] = <<"Schema validation success for ", data_sync_list[i]>>

C3_Witness ==
    /\ Exited /\ exit_status = 0 /\ N = 3
    /\ Len(stdout) = 3
    /\ data_sync_list[1] # data_sync_list[2] /\ data_sync_list[2] # data_sync_list[3]

\* C4: with a valid schema, when candidate C at position k is the first to
\* fail (absent, not JSON, or violating the schema) the run ends with status
\* 1 and one message containing C's path, never prints a success line for C,
\* and the outcome of the abort (status, success lines, candidates opened) is
\* a function of k alone, the same whatever the reason of the failure.
C4_CandidateFailure ==
    (schema_content = "schema" /\ FirstBad > 0) =>
        LET C == data_sync_list[FirstBad] IN
        /\ \A i \in 1..Len(stdout) : \A j \in 1..Len(stdout[i]) : stdout[i][j] # C
        /\ Exited =>
             /\ exit_status = 1
             /\ Len(stderr) = 1
             /\ \E j \in 1..Len(stderr[1]) : stderr[1][j] = C
             /\ <<exit_status, Len(stdout), Len(ConfigOpens), N - Len(ConfigOpens)>>
                    = <<1, FirstBad - 1, FirstBad, N - FirstBad>>
             /\ stderr[1][Len(stderr[1])] =
                    CASE fs[C] = "missing" -> "No such file"
                      [] fs[C] = "malformed" -> "Expecting value"
                      [] OTHER -> "ValidationError"

C4_Witness ==
    /\ Exited /\ schema_content = "schema"
    /\ N = 3 /\ FirstBad = 2 /\ fs[data_sync_list[2]] = "missing"
    /\ Len(stderr) = 1

\* C5: a run that ends with status 1 has emitted exactly one message: the
\* schema-error phrase when opening or parsing the schema failed, otherwise
\* the candidate-failure phrase with the path of the first failing candidate
\* and without the schema-error phrase; a run that ends with status 0 has
\* emitted none.
C5_MessageCategory ==
    Exited =>
        IF exit_status = 1
        THEN /\ Len(stderr) = 1
             /\ IF ~SchemaLoads
                THEN IsSchemaErrorMsg(stderr[1])
                ELSE FirstBad > 0 /\ IsCandidateErrorMsg(stderr[1], data_sync_list[FirstBad])
        ELSE stderr = <<>>

C5_Witness ==
    /\ Exited /\ exit_status = 1 /\ SchemaLoads
    /\ error.cls = "SystemExit"
    /\ Len(validated) >= 1

C7_FormatAsserted ==
    (schema_content = "schema" /\ FirstBad > 0
        /\ fs[data_sync_list[FirstBad]] = "format_bad") =>
        /\ Len(stdout) < FirstBad
        /\ Exited => /\ exit_status = 1
                     /\ stderr = << <<"Schema validation failed for ",
                                      data_sync_list[FirstBad],
                                      "!!! Error : ", "ValidationError">> >>

C7_Witness ==
    /\ Exited /\ schema_content = "schema" /\ FirstBad = 2
    /\ fs[data_sync_list[2]] = "format_bad"
    /\ Len(validated) = 2 /\ exit_status = 1

\* C8: at most one file is open at any time, no file is open when another
\* is about to be opened, and no file is open once an exception has left
\* the with block or the process has ended.
C8_ScopedHandles ==
    /\ Cardinality(handles) <= 1
    /\ pc \in {"open_schema", "open_config", "for"} => handles = {}
    /\ pc \in {"inner_except", "outer_dispatch", "outer_except", "uncaught", "exited"}
          => handles = {}

C8_Witness ==
    /\ Exited /\ exit_status = 1
    /\ Len(validated) = 2 /\ Len(stdout) = 1
    /\ handles = {}

\* C9: every run ends, with status 0 and no message or with status 1 and one
\* message written as the process ends, and once an exception has been
\* raised there is no further open, parse, validation or success line.
FinalState ==
    IF Exited
    THEN IF stderr = <<>> THEN exit_status = 0 ELSE exit_status = 1 /\ Len(stderr) = 1
    ELSE exit_status = -1 /\ stderr = <<>>

C9_Terminates ==
    /\ <>Exited
    /\ []FinalState
    /\ [][(error # NoError \/ stderr # <<>>) =>
             /\ opens' = opens /\ loads' = loads
             /\ validated' = validated /\ stdout' = stdout]_vars

C9_Witness ==
    /\ Exited /\ exit_status = 1
    /\ N = 3 /\ Len(ConfigOpens) = 1
    /\ fs[data_sync_list[2]] = "conforming"

\* C10: a schema file that is JSON but not a valid JSON Schema passes the
\* schema-loading stage; with a first candidate that exists and parses, that
\* candidate alone is opened and validated, and the run ends with status 1,
\* the candidate-failure message naming the first candidate and carrying the
\* schema error, and no success line.
C10_BadSchemaSeenAtValidation ==
    (schema_content = "not_a_schema" /\ N > 0
        /\ fs[data_sync_list[1]] \notin {"missing", "malformed"}) =>
        /\ stdout = <<>>
        /\ Len(ConfigOpens) <= 1
        /\ Exited => /\ exit_status = 1
                     /\ ConfigOpens = <<data_sync_list[1]>>
                     /\ validated = <<data_sync_list[1]>>
                     /\ stderr = << <<"Schema validation failed for ",
                                      data_sync_list[1],
                                      "!!! Error : ", "SchemaError">> >>

C10_Witness ==
    /\ Exited /\ schema_content = "not_a_schema"
    /\ N = 3 /\ fs[data_sync_list[1]] = "conforming"
    /\ validated = <<data_sync_list[1]>>

====
